---- MODULE Spec2Model ----
(***************************************************************************)
(* Model of the training / validation loop of src/main.py: fit, train_step *)
(* and valid_step, with the data split and the batching of the loaders.    *)
(*                                                                         *)
(* Abstractions.  Tensors are not modelled.  A sample is its index in the  *)
(* dataset.  The loss of a batch is a value of 0..MaxLoss that depends on  *)
(* the samples of the batch (photometric_loss is a mean of absolute        *)
(* values, hence non-negative); the gradient of a batch's loss is a        *)
(* non-zero integer; the parameters are one integer that the optimizer     *)
(* step moves by the content of the gradient buffer.  A mean               *)
(* (total_loss / size) is kept as the exact pair <<total_loss, size>>.     *)
(* The metrics sink is kept as the sequence of the step keys under which   *)
(* a training loss was recorded.                                           *)
(* The forward pass and the loss computation can raise; nothing in main.py *)
(* catches an exception, so a raise ends the run.                          *)
(***************************************************************************)
EXTENDS Integers, Naturals, Sequences, FiniteSets, TLC

\* ---- bounds of the model --------------------------------------------------
MaxN == 6
MaxB == 2
MaxEpochs == 2
MaxLoss == 1

VARIABLES
    N,            \* len(dataset)
    BATCH_SIZE,   \* batch size of both loaders
    epochs,       \* argument of fit
    pc,           \* position of the main thread
    failed,       \* "none", or what raised: "batch" or "division"
    train_set,    \* samples of the train partition
    valid_set,    \* samples of the validation partition, in loader order
    e,            \* loop variable of fit
    training,     \* model.training
    params,       \* model parameters
    num_batches_tracked, \* BatchNorm buffer of the state_dict
    grad,         \* .grad buffers of the parameters
    opt_steps,    \* optimizer state: number of steps applied
    total_loss,   \* running loss accumulator of the current pass
    size,         \* len(dataloader.dataset) of the current pass
    remaining,    \* train iterator: samples not yet drawn in this pass
    vpos,         \* validation iterator: samples already drawn in this pass
    batch,        \* samples of the current batch
    loss,         \* loss of the current batch
    train_loss,   \* value returned by train_step
    valid_loss,   \* value returned by valid_step
    emitted,      \* metrics sink: the step key of each record, in order
    reports,      \* printed lines: sequence of <<e, train_loss, valid_loss>>
    ckpt,         \* written checkpoint files: epoch key -> state_dict
    \* ---- history variables (observers, never read by the program) ----
    log,          \* <<loss, sample count>> of every batch of the current pass
    seen,         \* per sample: number of batches of this epoch it was in
    calls,        \* number of calls of each operation so far
    lastStepState,\* state_dict right after the latest optimizer step
    validSeen     \* state_dicts on which this epoch's validation ran

vars == <<N, BATCH_SIZE, epochs, pc, failed, train_set, valid_set, e, training,
          params, num_batches_tracked, grad, opt_steps, total_loss, size,
          remaining, vpos, batch, loss, train_loss, valid_loss, emitted,
          reports, ckpt, log, seen, calls, lastStepState, validSeen>>

inputVars  == <<N, BATCH_SIZE, epochs>>
splitVars  == <<train_set, valid_set>>
modelVars  == <<training, params, num_batches_tracked, grad, opt_steps>>
passVars   == <<total_loss, size, remaining, vpos, batch, loss>>
outVars    == <<train_loss, valid_loss, emitted, reports, ckpt>>
histVars   == <<log, seen, calls, lastStepState, validSeen>>

\* ---- helpers --------------------------------------------------------------
Range(s) == {s[i] : i \in 1..Len(s)}

Min(a, b) == IF a <= b THEN a ELSE b

Perms(S) == {s \in [1..Cardinality(S) -> S] : Range(s) = S}

RECURSIVE SumLog(_)
SumLog(l) == IF l = <<>> THEN 0 ELSE l[1][1] * l[1][2] + SumLog(Tail(l))

RECURSIVE CountLog(_)
CountLog(l) == IF l = <<>> THEN 0 ELSE l[1][2] + CountLog(Tail(l))

NoMean == <<0, 0>>

\* model.state_dict(): parameters and buffers
StateDict == [params |-> params, num_batches_tracked |-> num_batches_tracked]

NoCalls == [forward |-> 0, loss |-> 0, accum |-> 0, backward |-> 0,
            step |-> 0, emit |-> 0, vforward |-> 0, vloss |-> 0, vaccum |-> 0,
            train_step |-> 0, valid_step |-> 0, save |-> 0]

Bump(c, f) == [c EXCEPT ![f] = @ + 1]

\* variant: the fraction rounded to the nearest integer instead of truncated
TrainSize_Round(n) == (4 * n + 2) \div 5

\* int(0.8 * len(dataset)).  0.8 is the double just above 4/5, and the
\* product is rounded to the nearest double, so the result is never below
\* the exact 4n/5 and the truncation is floor(4n/5).
TrainSize(n) == (4 * n) \div 5

\* variant: running statistics updated whatever the mode
BNForward_Always(mode, tracked) == tracked + 1

\* Module.forward in a Block with batch_norm=True: BatchNorm2d updates its
\* running statistics only in training mode.
BNForward(mode, tracked) == IF mode THEN tracked + 1 ELSE tracked

\* SummaryWriter.add_scalar(tag, value) without global_step: the event is
\* written with the default step of the record, 0.
GlobalStep(sink) == 0

RECURSIVE SumSet(_)
SumSet(S) == IF S = {} THEN 0
             ELSE LET x == CHOOSE y \in S : TRUE IN x + SumSet(S \ {x})

\* photometric_loss(delta, img_a, img_b, points) of a batch that does not
\* raise: a non-negative value fixed by the content of the batch
PhotometricLoss(b) == SumSet(b) % (MaxLoss + 1)

\* gradient of the loss of a batch with respect to the parameters
GradOf(b) == Cardinality(b)

\* variant: the batch loss added without the weight of the batch
Accumulate_Unweighted(total, l, b) == total + l

\* total_loss += loss.item() * img_a.size(0)
Accumulate(total, l, b) == total + l * Cardinality(b)

\* loss.backward(): the gradient g of this loss is added to the buffers
Backward(buf, g) == buf + g

\* optimizer.step(): moves the parameters by the content of the buffers
OptimizerStep(p, buf) == p - buf

\* ---- fit: lines 116-128 ---------------------------------------------------
Init ==
    /\ N \in 0..MaxN
    /\ BATCH_SIZE \in 1..MaxB
    /\ epochs \in 0..MaxEpochs
    /\ pc = "split"
    /\ failed = "none"
    /\ train_set = {}
    /\ valid_set = <<>>
    /\ e = 0
    /\ training = TRUE
    /\ params = 0
    /\ num_batches_tracked = 0
    /\ grad = 0
    /\ opt_steps = 0
    /\ total_loss = 0
    /\ size = 0
    /\ remaining = {}
    /\ vpos = 0
    /\ batch = {}
    /\ loss = 0
    /\ train_loss = NoMean
    /\ valid_loss = NoMean
    /\ emitted = <<>>
    /\ reports = <<>>
    /\ ckpt = <<>>
    /\ log = <<>>
    /\ seen = [s \in 1..N |-> 0]
    /\ calls = NoCalls
    /\ lastStepState = StateDict
    /\ validSeen = {}

\* random_split(dataset, [train_size, len(dataset) - train_size]): a random
\* permutation of the indices, cut after train_size.  The train loader
\* reshuffles at every pass, so only the set of its samples is kept.
Split ==
    /\ pc = "split"
    /\ \E p \in Perms(1..N) :
         /\ train_set' = {p[i] : i \in 1..TrainSize(N)}
         /\ valid_set' = SubSeq(p, TrainSize(N) + 1, N)
    /\ pc' = "for_epoch"
    /\ UNCHANGED <<inputVars, failed, e, modelVars, passVars, outVars, histVars>>

\* variant: the loop stops once a validation loss of zero was measured
ForEpoch_EarlyStop ==
    /\ pc = "for_epoch"
    /\ pc' = IF e < epochs /\ (e = 0 \/ valid_loss[1] > 0)
             THEN "train_begin" ELSE "done"
    /\ UNCHANGED <<inputVars, failed, splitVars, e, modelVars, passVars,
                   outVars, histVars>>

\* for e in range(epochs)
ForEpoch ==
    /\ pc = "for_epoch"
    /\ pc' = IF e < epochs THEN "train_begin" ELSE "done"
    /\ UNCHANGED <<inputVars, failed, splitVars, e, modelVars, passVars,
                   outVars, histVars>>

\* ---- train_step: lines 74-93 ----------------------------------------------
\* model.train(); total_loss = 0.0; size = len(dataloader.dataset); iter()
TrainBegin ==
    /\ pc = "train_begin"
    /\ training' = TRUE
    /\ total_loss' = 0
    /\ size' = Cardinality(train_set)
    /\ remaining' = train_set
    /\ log' = <<>>
    /\ seen' = [s \in 1..N |-> 0]
    /\ validSeen' = {}
    /\ calls' = Bump(calls, "train_step")
    /\ pc' = "train_next"
    /\ UNCHANGED <<inputVars, failed, splitVars, e, params, num_batches_tracked,
                   grad, opt_steps, vpos, batch, loss, outVars, lastStepState>>

\* next batch of the shuffled loader: BATCH_SIZE samples not drawn yet, or
\* all that is left; StopIteration ends the loop
TrainNext ==
    /\ pc = "train_next"
    /\ IF remaining = {}
       THEN /\ pc' = "train_return"
            /\ UNCHANGED <<remaining, batch, seen>>
       ELSE \E b \in SUBSET remaining :
              /\ Cardinality(b) = Min(BATCH_SIZE, Cardinality(remaining))
              /\ batch' = b
              /\ remaining' = remaining \ b
              /\ seen' = [s \in 1..N |-> IF s \in b THEN seen[s] + 1 ELSE seen[s]]
              /\ pc' = "train_forward"
    /\ UNCHANGED <<inputVars, failed, splitVars, e, modelVars, total_loss, size,
                   vpos, loss, outVars, log, calls, lastStepState, validSeen>>

\* delta = model(patch_a, patch_b)
TrainForward ==
    /\ pc = "train_forward"
    /\ \/ /\ num_batches_tracked' = BNForward(training, num_batches_tracked)
          /\ calls' = Bump(calls, "forward")
          /\ pc' = "train_loss"
          /\ UNCHANGED failed
       \/ /\ pc' = "error"
          /\ failed' = "batch"
          /\ UNCHANGED <<num_batches_tracked, calls>>
    /\ UNCHANGED <<inputVars, splitVars, e, training, params, grad, opt_steps,
                   passVars, outVars, log, seen, lastStepState, validSeen>>

\* variant: a batch whose loss raises is skipped and the loop goes on
TrainLoss_SkipOnError ==
    /\ pc = "train_loss"
    /\ \/ /\ loss' = PhotometricLoss(batch)
          /\ calls' = Bump(calls, "loss")
          /\ pc' = "train_accum"
          /\ UNCHANGED failed
       \/ /\ pc' = "train_next"
          /\ failed' = "batch"
          /\ UNCHANGED <<loss, calls>>
    /\ UNCHANGED <<inputVars, splitVars, e, modelVars, total_loss, size,
                   remaining, vpos, batch, outVars, log, seen, lastStepState,
                   validSeen>>

\* loss = photometric_loss(delta, img_a, img_b, points)
TrainLoss ==
    /\ pc = "train_loss"
    /\ \/ /\ loss' = PhotometricLoss(batch)
          /\ calls' = Bump(calls, "loss")
          /\ pc' = "train_accum"
          /\ UNCHANGED failed
       \/ /\ pc' = "error"
          /\ failed' = "batch"
          /\ UNCHANGED <<loss, calls>>
    /\ UNCHANGED <<inputVars, splitVars, e, modelVars, total_loss, size,
                   remaining, vpos, batch, outVars, log, seen, lastStepState,
                   validSeen>>

\* total_loss += loss.item() * img_a.size(0)
TrainAccum ==
    /\ pc = "train_accum"
    /\ total_loss' = Accumulate(total_loss, loss, batch)
    /\ log' = Append(log, <<loss, Cardinality(batch)>>)
    /\ calls' = Bump(calls, "accum")
    /\ pc' = "train_backward"
    /\ UNCHANGED <<inputVars, failed, splitVars, e, modelVars, size, remaining,
                   vpos, batch, loss, outVars, seen, lastStepState, validSeen>>

\* variant: the optimizer step after the backward pass is left out
TrainBackward_SkipStep ==
    /\ pc = "train_backward"
    /\ grad' = Backward(grad, GradOf(batch))
    /\ calls' = Bump(calls, "backward")
    /\ pc' = "train_emit"
    /\ UNCHANGED <<inputVars, failed, splitVars, e, training, params,
                   num_batches_tracked, opt_steps, passVars, outVars, log, seen,
                   lastStepState, validSeen>>

\* loss.backward(); nothing in train_step clears the buffers
TrainBackward ==
    /\ pc = "train_backward"
    /\ grad' = Backward(grad, GradOf(batch))
    /\ calls' = Bump(calls, "backward")
    /\ pc' = "train_optstep"
    /\ UNCHANGED <<inputVars, failed, splitVars, e, training, params,
                   num_batches_tracked, opt_steps, passVars, outVars, log, seen,
                   lastStepState, validSeen>>

\* optimizer.step()
TrainOptStep ==
    /\ pc = "train_optstep"
    /\ params' = OptimizerStep(params, grad)
    /\ opt_steps' = opt_steps + 1
    /\ calls' = Bump(calls, "step")
    /\ lastStepState' = [params |-> params',
                         num_batches_tracked |-> num_batches_tracked]
    /\ pc' = "train_emit"
    /\ UNCHANGED <<inputVars, failed, splitVars, e, training,
                   num_batches_tracked, grad, passVars, outVars, log, seen,
                   validSeen>>

\* writer.add_scalar("train_loss", loss.item()); writer.flush()
TrainEmit ==
    /\ pc = "train_emit"
    /\ emitted' = Append(emitted, GlobalStep(emitted))
    /\ calls' = Bump(calls, "emit")
    /\ pc' = "train_next"
    /\ UNCHANGED <<inputVars, failed, splitVars, e, modelVars, passVars,
                   train_loss, valid_loss, reports, ckpt, log, seen,
                   lastStepState, validSeen>>

\* variant: fit goes from the TRAIN pass straight to the report
TrainReturn_SkipValid ==
    /\ pc = "train_return"
    /\ IF size = 0
       THEN /\ pc' = "error"
            /\ failed' = "division"
            /\ UNCHANGED train_loss
       ELSE /\ train_loss' = <<total_loss, size>>
            /\ pc' = "report"
            /\ UNCHANGED failed
    /\ UNCHANGED <<inputVars, splitVars, e, modelVars, passVars, valid_loss,
                   emitted, reports, ckpt, histVars>>

\* return total_loss / size: ZeroDivisionError for an empty partition (the
\* loop body never ran, total_loss is 0.0 and size is 0)
TrainReturn ==
    /\ pc = "train_return"
    /\ IF size = 0
       THEN /\ pc' = "error"
            /\ failed' = "division"
            /\ UNCHANGED train_loss
       ELSE /\ train_loss' = <<total_loss, size>>
            /\ pc' = "valid_begin"
            /\ UNCHANGED failed
    /\ UNCHANGED <<inputVars, splitVars, e, modelVars, passVars, valid_loss,
                   emitted, reports, ckpt, histVars>>

\* ---- valid_step: lines 96-112 ---------------------------------------------
\* variant: valid_step without model.eval()
ValidBegin_NoEval ==
    /\ pc = "valid_begin"
    /\ total_loss' = 0
    /\ size' = Len(valid_set)
    /\ vpos' = 0
    /\ log' = <<>>
    /\ calls' = Bump(calls, "valid_step")
    /\ pc' = "valid_next"
    /\ UNCHANGED <<inputVars, failed, splitVars, e, modelVars, remaining, batch,
                   loss, outVars, seen, lastStepState, validSeen>>

\* model.eval(); with torch.no_grad(): total_loss = 0.0; size = ...; iter()
ValidBegin ==
    /\ pc = "valid_begin"
    /\ training' = FALSE
    /\ total_loss' = 0
    /\ size' = Len(valid_set)
    /\ vpos' = 0
    /\ log' = <<>>
    /\ calls' = Bump(calls, "valid_step")
    /\ pc' = "valid_next"
    /\ UNCHANGED <<inputVars, failed, splitVars, e, params, num_batches_tracked,
                   grad, opt_steps, remaining, batch, loss, outVars, seen,
                   lastStepState, validSeen>>

\* next batch of the sequential loader
ValidNext ==
    /\ pc = "valid_next"
    /\ IF vpos = Len(valid_set)
       THEN /\ pc' = "valid_return"
            /\ UNCHANGED <<vpos, batch, seen>>
       ELSE LET n == Min(BATCH_SIZE, Len(valid_set) - vpos)
                b == {valid_set[i] : i \in (vpos + 1)..(vpos + n)}
            IN  /\ batch' = b
                /\ vpos' = vpos + n
                /\ seen' = [s \in 1..N |-> IF s \in b THEN seen[s] + 1 ELSE seen[s]]
                /\ pc' = "valid_forward"
    /\ UNCHANGED <<inputVars, failed, splitVars, e, modelVars, total_loss, size,
                   remaining, loss, outVars, log, calls, lastStepState,
                   validSeen>>

\* delta = model(patch_a, patch_b)
ValidForward ==
    /\ pc = "valid_forward"
    /\ \/ /\ num_batches_tracked' = BNForward(training, num_batches_tracked)
          /\ validSeen' = validSeen \cup {StateDict}
          /\ calls' = Bump(calls, "vforward")
          /\ pc' = "valid_loss"
          /\ UNCHANGED failed
       \/ /\ pc' = "error"
          /\ failed' = "batch"
          /\ UNCHANGED <<num_batches_tracked, validSeen, calls>>
    /\ UNCHANGED <<inputVars, splitVars, e, training, params, grad, opt_steps,
                   passVars, outVars, log, seen, lastStepState>>

\* loss = photometric_loss(delta, img_a, img_b, points)
ValidLoss ==
    /\ pc = "valid_loss"
    /\ \/ /\ loss' = PhotometricLoss(batch)
          /\ calls' = Bump(calls, "vloss")
          /\ pc' = "valid_accum"
          /\ UNCHANGED failed
       \/ /\ pc' = "error"
          /\ failed' = "batch"
          /\ UNCHANGED <<loss, calls>>
    /\ UNCHANGED <<inputVars, splitVars, e, modelVars, total_loss, size,
                   remaining, vpos, batch, outVars, log, seen, lastStepState,
                   validSeen>>

\* total_loss += loss.item() * img_a.size(0)
ValidAccum ==
    /\ pc = "valid_accum"
    /\ total_loss' = Accumulate(total_loss, loss, batch)
    /\ log' = Append(log, <<loss, Cardinality(batch)>>)
    /\ calls' = Bump(calls, "vaccum")
    /\ pc' = "valid_next"
    /\ UNCHANGED <<inputVars, failed, splitVars, e, modelVars, size, remaining,
                   vpos, batch, loss, outVars, seen, lastStepState, validSeen>>

\* return total_loss / size
ValidReturn ==
    /\ pc = "valid_return"
    /\ IF size = 0
       THEN /\ pc' = "error"
            /\ failed' = "division"
            /\ UNCHANGED valid_loss
       ELSE /\ valid_loss' = <<total_loss, size>>
            /\ pc' = "report"
            /\ UNCHANGED failed
    /\ UNCHANGED <<inputVars, splitVars, e, modelVars, passVars, train_loss,
                   emitted, reports, ckpt, histVars>>

\* ---- fit: lines 133-134 ---------------------------------------------------
\* print(f"{e}\t{train_loss:.4f}\t{valid_loss:.4f}")
Report ==
    /\ pc = "report"
    /\ reports' = Append(reports, <<e, train_loss, valid_loss>>)
    /\ pc' = "save"
    /\ UNCHANGED <<inputVars, failed, splitVars, e, modelVars, passVars,
                   train_loss, valid_loss, emitted, ckpt, histVars>>

\* torch.save(model.state_dict(), f"model_{e}.pt"), then the next e
Save ==
    /\ pc = "save"
    /\ ckpt' = [k \in DOMAIN ckpt \cup {e} |-> IF k = e THEN StateDict ELSE ckpt[k]]
    /\ e' = e + 1
    /\ calls' = Bump(calls, "save")
    /\ pc' = "for_epoch"
    /\ UNCHANGED <<inputVars, failed, splitVars, modelVars, passVars,
                   train_loss, valid_loss, emitted, reports, log, seen,
                   lastStepState, validSeen>>

Next ==
    \/ Split \/ ForEpoch
    \/ TrainBegin \/ TrainNext \/ TrainForward \/ TrainLoss \/ TrainAccum
    \/ TrainBackward \/ TrainOptStep \/ TrainEmit \/ TrainReturn
    \/ ValidBegin \/ ValidNext \/ ValidForward \/ ValidLoss \/ ValidAccum
    \/ ValidReturn
    \/ Report \/ Save

Spec == Init /\ [][Next]_vars

TypeOK ==
    /\ pc \in {"split", "for_epoch", "train_begin", "train_next",
               "train_forward", "train_loss", "train_accum", "train_backward",
               "train_optstep", "train_emit", "train_return", "valid_begin",
               "valid_next", "valid_forward", "valid_loss", "valid_accum",
               "valid_return", "report", "save", "done", "error"}
    /\ failed \in {"none", "batch", "division"}
    /\ e \in 0..epochs

\* ---- properties -----------------------------------------------------------
\* number of batches a loader yields for n samples and batch size b
NumBatches(n, b) == (n + b - 1) \div b

TrainPcs == {"train_next", "train_forward", "train_loss", "train_accum",
             "train_backward", "train_optstep", "train_emit", "train_return"}

ValidPcs == {"valid_begin", "valid_next", "valid_forward", "valid_loss",
             "valid_accum", "valid_return"}

Ended == pc \in {"done", "error"}

\* a training batch is drawn from the train loader in this step
TrainDrawn == remaining' # remaining /\ remaining' \subseteq remaining

\* a validation batch is drawn from the validation loader in this step
ValidDrawn == vpos' > vpos

\* C1: the gradient buffers are zero immediately before the backward pass of
\* every training batch, and the gradient applied by the optimizer step of a
\* batch is the gradient of that batch's loss alone.
C1_GradZeroBeforeBackward ==
    /\ pc = "train_backward" => grad = 0
    /\ pc = "train_optstep" => grad = GradOf(batch)

\* C2: no step of a VALID pass changes the parameters, the buffers of the
\* state_dict, the gradient buffers or the optimizer state, and no backward
\* pass or optimizer step is made during it.
C2_ValidLeavesModelUnchanged ==
    [][(pc \in ValidPcs) =>
          (/\ UNCHANGED <<params, num_batches_tracked, grad, opt_steps>>
           /\ calls'.backward = calls.backward
           /\ calls'.step = calls.step)]_vars

C2_Witness ==
    /\ pc = "report"
    /\ calls.vforward >= 2
    /\ calls.vaccum >= 2
    /\ opt_steps >= 1

\* C3: within epoch e the TRAIN pass is complete before the first validation
\* batch is drawn, the VALID pass is complete before the report, the report
\* precedes the save of checkpoint e, and no training batch of the next epoch
\* is drawn before that save; a training batch is never drawn while a VALID
\* pass is under way.
C3_PhaseSequence ==
    [][(/\ TrainDrawn =>
             /\ calls.save = e
             /\ DOMAIN ckpt = 0..(e - 1)
             /\ Len(reports) = e
             /\ calls.valid_step = e
             /\ vpos = (IF e = 0 THEN 0 ELSE Len(valid_set))
        /\ ValidDrawn =>
             /\ remaining = {}
             /\ \A s \in train_set : seen[s] = 1
             /\ calls.train_step = e + 1
             /\ calls.emit = (e + 1) * NumBatches(Cardinality(train_set), BATCH_SIZE)
             /\ Len(reports) = e
        /\ reports' # reports =>
             /\ reports' = Append(reports, <<e, train_loss, valid_loss>>)
             /\ Len(reports) = e
             /\ remaining = {}
             /\ vpos = Len(valid_set)
             /\ calls.valid_step = e + 1
             /\ calls.vaccum = (e + 1) * NumBatches(Len(valid_set), BATCH_SIZE)
             /\ calls.save = e
        /\ ckpt' # ckpt =>
             /\ Len(reports) = e + 1
             /\ DOMAIN ckpt = 0..(e - 1)
             /\ DOMAIN ckpt' = 0..e)]_vars

C3_Witness ==
    /\ pc = "for_epoch"
    /\ e = 2
    /\ Len(reports) = 2
    /\ calls.forward >= 4
    /\ calls.vforward >= 4

\* C4: in every pass the accumulator equals the sum of (batch loss x batch
\* sample count) over the batches accumulated so far in that pass, starting
\* from zero, with one term per batch; the mean returned by a pass is that sum
\* over all the batches of the partition, divided by the partition length.
C4_RunningLoss ==
    /\ pc \in TrainPcs \cup (ValidPcs \ {"valid_begin"}) \cup {"report"} =>
          total_loss = SumLog(log)
    /\ pc \in {"train_next", "valid_next"} /\ log = <<>> => total_loss = 0
    /\ pc = "valid_begin" =>
          /\ train_loss = <<SumLog(log), Cardinality(train_set)>>
          /\ Len(log) = NumBatches(Cardinality(train_set), BATCH_SIZE)
          /\ CountLog(log) = Cardinality(train_set)
    /\ pc = "report" =>
          /\ valid_loss = <<SumLog(log), Len(valid_set)>>
          /\ Len(log) = NumBatches(Len(valid_set), BATCH_SIZE)
          /\ CountLog(log) = Len(valid_set)

\* a second-epoch TRAIN pass that ends with a partial batch and a non-zero sum
C4_Witness ==
    /\ pc = "valid_begin"
    /\ e >= 1
    /\ Len(log) >= 2
    /\ log[Len(log)][2] < BATCH_SIZE
    /\ train_loss[1] > 0
    /\ reports[1][2][1] > 0

\* C5: the step keys of the emissions to the metrics sink are strictly
\* increasing over the whole run.
C5_StepKeysIncrease ==
    \A i, j \in 1..Len(emitted) : i < j => emitted[i] < emitted[j]

\* C6: a raise in the forward pass or the loss computation of a batch ends the
\* run in that step: the step changes neither the model, the optimizer state,
\* the accumulator nor any output, the failing batch gets no optimizer step,
\* the current epoch has no report and no checkpoint while those of the
\* earlier epochs are in place, and no step follows.
C6_FailFast ==
    [][(/\ failed = "none"
        /\ failed' = "batch" =>
             /\ pc' = "error"
             /\ UNCHANGED <<modelVars, total_loss, remaining, vpos, outVars>>
             /\ calls' = calls
             /\ calls.step = calls.emit
             /\ calls.backward = calls.step
             /\ calls.forward = calls.step
                  + (IF pc = "train_loss" THEN 1 ELSE 0)
             /\ Len(reports) = e
             /\ DOMAIN ckpt = 0..(e - 1))]_vars

C6_Witness ==
    /\ pc = "error"
    /\ failed = "batch"
    /\ e >= 1
    /\ 0 \in DOMAIN ckpt
    /\ calls.forward > calls.step

\* C7 as stated: a run in which no batch fails ends after exactly `epochs`
\* epochs, with checkpoints 0..epochs-1.
C7_AllEpochsUnlessBatchFails ==
    Ended /\ failed # "batch" =>
        /\ pc = "done"
        /\ DOMAIN ckpt = 0..(epochs - 1)

\* C7 amended: with a non-empty train partition (N >= 2), a run in which no
\* batch fails cannot stop before the state "done", and reaches it with
\* exactly `epochs` TRAIN passes, VALID passes, reports and saves, the
\* checkpoint keys being 0..epochs-1 with one save each, whatever the losses;
\* with N <= 1 and epochs >= 1 the division of the first TRAIN pass raises
\* and nothing is written.
C7_AllEpochsNonEmptyTrain ==
    /\ ~Ended => ENABLED Next
    /\ Ended /\ failed # "batch" /\ N >= 2 =>
          /\ pc = "done"
          /\ e = epochs
          /\ calls.train_step = epochs
          /\ calls.valid_step = epochs
          /\ Len(reports) = epochs
          /\ calls.save = epochs
          /\ DOMAIN ckpt = 0..(epochs - 1)
    /\ Ended /\ N <= 1 /\ epochs >= 1 =>
          /\ failed = "division"
          /\ ckpt = <<>>
          /\ reports = <<>>

\* a complete run of two epochs whose first validation loss is zero
C7_Witness ==
    /\ pc = "done"
    /\ epochs = 2
    /\ DOMAIN ckpt = {0, 1}
    /\ reports[1][3][1] = 0

\* C8: the train partition has floor(0.8 N) samples and the validation
\* partition the other N - floor(0.8 N); the partitions are disjoint and cover
\* the dataset; at the end of a pass every sample of its partition was in
\* exactly one batch, all batches but the last are full, and at the end of an
\* epoch the sample counts of all batches sum to N.
C8_SplitAndBatches ==
    pc # "split" =>
        /\ 5 * Cardinality(train_set) <= 4 * N
        /\ 4 * N < 5 * (Cardinality(train_set) + 1)
        /\ Len(valid_set) = N - Cardinality(train_set)
        /\ Cardinality(Range(valid_set)) = Len(valid_set)
        /\ train_set \cap Range(valid_set) = {}
        /\ train_set \cup Range(valid_set) = 1..N
        /\ \A i \in 1..Len(log) :
              /\ log[i][2] >= 1
              /\ log[i][2] <= BATCH_SIZE
              /\ i < Len(log) => log[i][2] = BATCH_SIZE
        /\ pc = "valid_begin" =>
              /\ \A s \in 1..N : seen[s] = (IF s \in train_set THEN 1 ELSE 0)
              /\ CountLog(log) = Cardinality(train_set)
        /\ pc = "report" =>
              /\ \A s \in 1..N : seen[s] = 1
              /\ CountLog(log) = Len(valid_set)
              /\ train_loss[2] + valid_loss[2] = N

C8_Witness ==
    /\ pc = "report"
    /\ N >= 6
    /\ BATCH_SIZE = 2
    /\ Len(valid_set) = 2
    /\ Cardinality(train_set) = 4

\* C9: the operations of a training batch are made in the order forward, loss,
\* accumulation, backward, optimizer step, emission, one of each per batch,
\* and after k complete epochs the optimizer has made k times the number of
\* training batches steps.
C9_BatchOrder ==
    /\ calls.forward >= calls.loss
    /\ calls.loss >= calls.accum
    /\ calls.accum >= calls.backward
    /\ calls.backward >= calls.step
    /\ calls.step >= calls.emit
    /\ calls.emit >= calls.forward - 1
    /\ opt_steps = calls.step
    /\ Len(emitted) = calls.emit
    /\ pc = "train_next" => calls.emit = calls.forward
    /\ pc \in {"for_epoch", "done"} =>
          opt_steps = e * NumBatches(Cardinality(train_set), BATCH_SIZE)

C9_Witness ==
    /\ pc = "done"
    /\ e = 2
    /\ opt_steps = 4
    /\ BATCH_SIZE = 2
    /\ Cardinality(train_set) = 3

\* C10: from the end of the TRAIN pass to the save the state_dict is the one
\* left by the last optimizer step; every validation forward pass of the epoch
\* ran on it, and it is what checkpoint e holds.
C10_CheckpointIsTrainedState ==
    /\ pc \in ValidPcs \cup {"report", "save"} => StateDict = lastStepState
    /\ validSeen \subseteq {lastStepState}
    /\ pc \in {"for_epoch", "done"} /\ e >= 1 =>
          /\ ckpt[e - 1] = lastStepState
          /\ validSeen = {ckpt[e - 1]}

C10_Witness ==
    /\ pc = "for_epoch"
    /\ e = 2
    /\ ckpt[0] # ckpt[1]
    /\ validSeen = {ckpt[1]}
====
